---- MODULE Spec2Model ----
(***************************************************************************)
(* Container classes of LIFE_SIMULATION/life_simulation.py: BattleTeam,    *)
(* LegendaryCreatureInventory and ItemInventory.                           *)
(*                                                                         *)
(* A creature or item is a Python object; the classes define no __eq__, so *)
(* `x in list` and list.remove(x) compare by object identity.  An object   *)
(* is modelled by a positive integer (its identity); the attribute         *)
(* legendary_creature_id that BattleTeam.add_legendary_creature reads is a *)
(* function of the object, and two objects may carry the same id.          *)
(*                                                                         *)
(* The objects share no state.  A behaviour follows one of them, the       *)
(* receiver of the calls, from its construction through any sequence of    *)
(* its methods.                                                            *)
(***************************************************************************)
EXTENDS Integers, Sequences, FiniteSets

VARIABLES receiver, team, leader, creatureInv, itemInv, tile, placed, op, arg, result

vars == <<receiver, team, leader, creatureInv, itemInv, tile, placed, op, arg, result>>

invVars == <<receiver, creatureInv, itemInv>>

adventureVars == <<tile, placed>>

(***************************************************************************)
(* Bounds of the model.                                                    *)
(***************************************************************************)
\* number of creature objects; the last one shares its id with the first
NumCreatures == 7

\* longest list handed to the BattleTeam constructor with arbitrary content
MaxInitLen == 2

\* number of objects offered to each inventory
NumInvObjects == 3

\* longest inventory listing explored
MaxInvLen == 4

(***************************************************************************)
(* Values.                                                                 *)
(***************************************************************************)
\* Python None
None == 0

Creatures == 1..NumCreatures

InvObjects == 1..NumInvObjects

MAX_LEGENDARY_CREATURES == 5

\* the attribute creature.legendary_creature_id
legendary_creature_id(c) == IF c = NumCreatures THEN 1 ELSE c

(***************************************************************************)
(* Python list primitives.                                                 *)
(***************************************************************************)
\* x in lst
InList(x, lst) == \E i \in 1..Len(lst) : lst[i] = x

\* index of the first occurrence of x in lst (x is in lst)
FirstIndex(x, lst) == CHOOSE i \in 1..Len(lst) : lst[i] = x /\ \A j \in 1..(i - 1) : lst[j] # x

\* lst.remove(x): deletes the first occurrence of x
ListRemove(lst, x) == LET k == FirstIndex(x, lst) IN SubSeq(lst, 1, k - 1) \o SubSeq(lst, k + 1, Len(lst))

\* an insertion at the front of the list
ListPrepend(lst, x) == <<x>> \o lst

\* lst.append(x)
ListAppend(lst, x) == Append(lst, x)

\* all lists over S of length at most n
ListsUpTo(S, n) == UNION {[1..k -> S] : k \in 0..n}

(***************************************************************************)
(* class BattleTeam                                                        *)
(***************************************************************************)
\* a constructor that keeps the first MAX_LEGENDARY_CREATURES entries of a
\* list that is too long
BattleTeam_init_truncating(a) ==
    LET legendary_creatures == IF a.omitted THEN <<>> ELSE a.list
        kept == IF Len(legendary_creatures) <= MAX_LEGENDARY_CREATURES
                THEN legendary_creatures
                ELSE SubSeq(legendary_creatures, 1, MAX_LEGENDARY_CREATURES)
    IN [team |-> kept, leader |-> IF Len(kept) = 0 THEN None ELSE kept[1]]

\* BattleTeam.__init__(legendary_creatures=None).  The argument a is a record:
\* a.omitted tells that the caller passed nothing (or None), a.list is the
\* list passed otherwise.  None becomes []; the list is kept when it has at
\* most MAX_LEGENDARY_CREATURES entries and replaced by [] otherwise; the
\* leader is the first entry, or None for an empty list.
BattleTeam_init(a) ==
    LET legendary_creatures == IF a.omitted THEN <<>> ELSE a.list
        kept == IF Len(legendary_creatures) <= MAX_LEGENDARY_CREATURES
                THEN legendary_creatures ELSE <<>>
    IN [team |-> kept, leader |-> IF Len(kept) = 0 THEN None ELSE kept[1]]

\* set_leader without the membership test
set_leader_unchecked(lst, candidate) ==
    IF Len(lst) = 0 \/ candidate = None
    THEN None
    ELSE candidate

\* BattleTeam.set_leader(leader): the new value of self.leader
set_leader(lst, candidate) ==
    IF ~InList(candidate, lst) \/ Len(lst) = 0 \/ candidate = None
    THEN None
    ELSE candidate

\* add_legendary_creature with the capacity test written <= instead of <
add_legendary_creature_le(lst, ldr, c) ==
    IF Len(lst) <= MAX_LEGENDARY_CREATURES
    THEN LET legendary_creature_ids == [i \in 1..Len(lst) |-> legendary_creature_id(lst[i])]
         IN IF ~InList(legendary_creature_id(c), legendary_creature_ids)
            THEN LET appended == ListAppend(lst, c)
                 IN [team |-> appended, leader |-> set_leader(appended, None), result |-> "True"]
            ELSE [team |-> lst, leader |-> ldr, result |-> "False"]
    ELSE [team |-> lst, leader |-> ldr, result |-> "False"]

\* add_legendary_creature with the duplicate test on the object, not on its id
add_legendary_creature_by_object(lst, ldr, c) ==
    IF Len(lst) < MAX_LEGENDARY_CREATURES
    THEN IF ~InList(c, lst)
         THEN LET appended == ListAppend(lst, c)
              IN [team |-> appended, leader |-> set_leader(appended, None), result |-> "True"]
         ELSE [team |-> lst, leader |-> ldr, result |-> "False"]
    ELSE [team |-> lst, leader |-> ldr, result |-> "False"]

\* BattleTeam.add_legendary_creature(legendary_creature)
add_legendary_creature(lst, ldr, c) ==
    IF Len(lst) < MAX_LEGENDARY_CREATURES
    THEN LET legendary_creature_ids == [i \in 1..Len(lst) |-> legendary_creature_id(lst[i])]
         IN IF ~InList(legendary_creature_id(c), legendary_creature_ids)
            THEN LET appended == ListAppend(lst, c)
                 IN [team |-> appended, leader |-> set_leader(appended, None), result |-> "True"]
            ELSE [team |-> lst, leader |-> ldr, result |-> "False"]
    ELSE [team |-> lst, leader |-> ldr, result |-> "False"]

\* remove_legendary_creature that looks the member up by its id
remove_legendary_creature_by_id(lst, ldr, c) ==
    IF \E i \in 1..Len(lst) : legendary_creature_id(lst[i]) = legendary_creature_id(c)
    THEN LET k == CHOOSE i \in 1..Len(lst) :
                      /\ legendary_creature_id(lst[i]) = legendary_creature_id(c)
                      /\ \A j \in 1..(i - 1) : legendary_creature_id(lst[j]) # legendary_creature_id(c)
             removed == SubSeq(lst, 1, k - 1) \o SubSeq(lst, k + 1, Len(lst))
         IN [team |-> removed, leader |-> set_leader(removed, None), result |-> "True"]
    ELSE [team |-> lst, leader |-> ldr, result |-> "False"]

\* remove_legendary_creature without the set_leader() call after the removal
remove_legendary_creature_stale(lst, ldr, c) ==
    IF InList(c, lst)
    THEN [team |-> ListRemove(lst, c), leader |-> ldr, result |-> "True"]
    ELSE [team |-> lst, leader |-> ldr, result |-> "False"]

\* remove_legendary_creature with the set_leader() call also on the rejected path
remove_legendary_creature_reset(lst, ldr, c) ==
    IF InList(c, lst)
    THEN LET removed == ListRemove(lst, c)
         IN [team |-> removed, leader |-> set_leader(removed, None), result |-> "True"]
    ELSE [team |-> lst, leader |-> set_leader(lst, None), result |-> "False"]

\* BattleTeam.remove_legendary_creature(legendary_creature)
remove_legendary_creature(lst, ldr, c) ==
    IF InList(c, lst)
    THEN LET removed == ListRemove(lst, c)
         IN [team |-> removed, leader |-> set_leader(removed, None), result |-> "True"]
    ELSE [team |-> lst, leader |-> ldr, result |-> "False"]

\* lists a caller hands to the constructor: every short list (repeated objects
\* and repeated ids included), a full team, and a list that is too long
InitLists ==
    ListsUpTo(Creatures, MaxInitLen)
        \cup {[i \in 1..MAX_LEGENDARY_CREATURES |-> i], [i \in 1..(MAX_LEGENDARY_CREATURES + 1) |-> i]}

\* arguments of the constructor: nothing, or one of the lists
InitArgs == {[omitted |-> TRUE, list |-> <<>>]} \cup {[omitted |-> FALSE, list |-> lst] : lst \in InitLists}

TeamInit ==
    /\ receiver = "BattleTeam"
    /\ \E a \in InitArgs :
          /\ team = BattleTeam_init(a).team
          /\ leader = BattleTeam_init(a).leader
          /\ arg = a
    /\ creatureInv = <<>>
    /\ itemInv = <<>>
    /\ tile = <<>>
    /\ placed = <<>>
    /\ op = "init"
    /\ result = "None"

SetLeader ==
    \E c \in Creatures \cup {None} :
        /\ receiver = "BattleTeam"
        /\ leader' = set_leader(team, c)
        /\ team' = team
        /\ op' = "set_leader"
        /\ arg' = c
        /\ result' = "None"
        /\ UNCHANGED <<invVars, adventureVars>>

AddLegendaryCreature ==
    \E c \in Creatures :
        LET r == add_legendary_creature(team, leader, c)
        IN /\ receiver = "BattleTeam"
           /\ team' = r.team
           /\ leader' = r.leader
           /\ op' = "add"
           /\ arg' = c
           /\ result' = r.result
           /\ UNCHANGED <<invVars, adventureVars>>

RemoveLegendaryCreature ==
    \E c \in Creatures :
        LET r == remove_legendary_creature(team, leader, c)
        IN /\ receiver = "BattleTeam"
           /\ team' = r.team
           /\ leader' = r.leader
           /\ op' = "remove"
           /\ arg' = c
           /\ result' = r.result
           /\ UNCHANGED <<invVars, adventureVars>>

TeamNext == SetLeader \/ AddLegendaryCreature \/ RemoveLegendaryCreature

(***************************************************************************)
(* class LegendaryCreatureInventory, class ItemInventory                   *)
(***************************************************************************)
\* an add that rejects an object already listed
inv_add_legendary_creature_unique(lst, c) ==
    IF InList(c, lst)
    THEN [list |-> lst, result |-> "False"]
    ELSE [list |-> ListAppend(lst, c), result |-> "True"]

\* LegendaryCreatureInventory.add_legendary_creature(legendary_creature)
inv_add_legendary_creature(lst, c) == [list |-> ListAppend(lst, c), result |-> "None"]

\* LegendaryCreatureInventory.remove_legendary_creature(legendary_creature)
inv_remove_legendary_creature(lst, c) ==
    IF InList(c, lst)
    THEN [list |-> ListRemove(lst, c), result |-> "True"]
    ELSE [list |-> lst, result |-> "False"]

\* ItemInventory.add_item(item)
add_item(lst, item) == [list |-> ListAppend(lst, item), result |-> "None"]

\* a remove_item that deletes every occurrence of the item
remove_item_all(lst, item) ==
    IF InList(item, lst)
    THEN [list |-> SelectSeq(lst, LAMBDA x : x # item), result |-> "True"]
    ELSE [list |-> lst, result |-> "False"]

\* ItemInventory.remove_item(item)
remove_item(lst, item) ==
    IF InList(item, lst)
    THEN [list |-> ListRemove(lst, item), result |-> "True"]
    ELSE [list |-> lst, result |-> "False"]

InvAddLegendaryCreature ==
    \E c \in InvObjects :
        LET r == inv_add_legendary_creature(creatureInv, c)
        IN /\ receiver = "LegendaryCreatureInventory"
           /\ Len(creatureInv) < MaxInvLen
           /\ creatureInv' = r.list
           /\ op' = "inv_add"
           /\ arg' = c
           /\ result' = r.result
           /\ UNCHANGED <<receiver, team, leader, itemInv, adventureVars>>

InvRemoveLegendaryCreature ==
    \E c \in InvObjects :
        LET r == inv_remove_legendary_creature(creatureInv, c)
        IN /\ receiver = "LegendaryCreatureInventory"
           /\ creatureInv' = r.list
           /\ op' = "inv_remove"
           /\ arg' = c
           /\ result' = r.result
           /\ UNCHANGED <<receiver, team, leader, itemInv, adventureVars>>

AddItem ==
    \E item \in InvObjects :
        LET r == add_item(itemInv, item)
        IN /\ receiver = "ItemInventory"
           /\ Len(itemInv) < MaxInvLen
           /\ itemInv' = r.list
           /\ op' = "add_item"
           /\ arg' = item
           /\ result' = r.result
           /\ UNCHANGED <<receiver, team, leader, creatureInv, adventureVars>>

RemoveItem ==
    \E item \in InvObjects :
        LET r == remove_item(itemInv, item)
        IN /\ receiver = "ItemInventory"
           /\ itemInv' = r.list
           /\ op' = "remove_item"
           /\ arg' = item
           /\ result' = r.result
           /\ UNCHANGED <<receiver, team, leader, creatureInv, adventureVars>>

InvNext == InvAddLegendaryCreature \/ InvRemoveLegendaryCreature \/ AddItem \/ RemoveItem

\* LegendaryCreatureInventory.__init__ and ItemInventory.__init__
InvInit ==
    /\ receiver \in {"LegendaryCreatureInventory", "ItemInventory"}
    /\ team = <<>>
    /\ leader = None
    /\ creatureInv = <<>>
    /\ itemInv = <<>>
    /\ tile = <<>>
    /\ placed = <<>>
    /\ op = "init"
    /\ arg = None
    /\ result = "None"

Init == TeamInit \/ InvInit

Next == TeamNext \/ InvNext

Spec == Init /\ [][Next]_vars

(***************************************************************************)
(* get_elemental_damage_multiplier                                         *)
(*                                                                         *)
(* An element tag is a Python string, compared with == as a whole.  The    *)
(* mpf values mpf("2"), mpf("0.5") and mpf("1") are written "2", "0.5" and *)
(* "1".                                                                    *)
(***************************************************************************)
\* LegendaryCreature.POTENTIAL_ELEMENTS
POTENTIAL_ELEMENTS ==
    <<"TERRA", "FLAME", "SEA", "NATURE", "ELECTRIC", "ICE", "METAL",
      "DARK", "LIGHT", "WAR", "PURE", "LEGEND", "PRIMAL", "WIND",
      "BEAUTY", "MAGIC", "CHAOS", "HAPPY", "DREAM", "SOUL">>

\* the same tags written in lower case
LowerCaseTags ==
    <<"terra", "flame", "sea", "nature", "electric", "ice", "metal",
      "dark", "light", "war", "pure", "legend", "primal", "wind",
      "beauty", "magic", "chaos", "happy", "dream", "soul">>

\* the same tags written with a capital initial
MixedCaseTags ==
    <<"Terra", "Flame", "Sea", "Nature", "Electric", "Ice", "Metal",
      "Dark", "Light", "War", "Pure", "Legend", "Primal", "Wind",
      "Beauty", "Magic", "Chaos", "Happy", "Dream", "Soul">>

\* strings handed to the function: the tags in the three spellings, the one
\* string the TERRA branch compares with, and a string that names no element
Tags ==
    {POTENTIAL_ELEMENTS[i] : i \in 1..Len(POTENTIAL_ELEMENTS)}
        \cup {LowerCaseTags[i] : i \in 1..Len(LowerCaseTags)}
        \cup {MixedCaseTags[i] : i \in 1..Len(MixedCaseTags)}
        \cup {"ELECTRIC, DARK", "UNKNOWN"}

\* str.upper() on the strings of Tags
Upper(tag) ==
    IF \E i \in 1..Len(POTENTIAL_ELEMENTS) : tag \in {LowerCaseTags[i], MixedCaseTags[i]}
    THEN POTENTIAL_ELEMENTS[CHOOSE i \in 1..Len(POTENTIAL_ELEMENTS) : tag \in {LowerCaseTags[i], MixedCaseTags[i]}]
    ELSE tag

\* the branch element1 == "TERRA"
branch_TERRA(element2) ==
    IF InList(element2, <<"ELECTRIC, DARK">>) THEN "2"
    ELSE IF InList(element2, <<"METAL", "WAR">>) THEN "0.5"
    ELSE "1"

\* the branch element1 == "FLAME"
branch_FLAME(element2) ==
    IF InList(element2, <<"NATURE", "ICE">>) THEN "2"
    ELSE IF InList(element2, <<"SEA", "WAR">>) THEN "0.5"
    ELSE "1"

\* the branch element1 == "SEA"
branch_SEA(element2) ==
    IF InList(element2, <<"FLAME", "WAR">>) THEN "2"
    ELSE IF InList(element2, <<"NATURE", "ELECTRIC">>) THEN "0.5"
    ELSE "1"

\* the branch element1 == "NATURE"
branch_NATURE(element2) ==
    IF InList(element2, <<"SEA", "LIGHT">>) THEN "2"
    ELSE IF InList(element2, <<"FLAME", "ICE">>) THEN "0.5"
    ELSE "1"

\* the branch element1 == "ELECTRIC"
branch_ELECTRIC(element2) ==
    IF InList(element2, <<"SEA", "METAL">>) THEN "2"
    ELSE IF InList(element2, <<"TERRA", "LIGHT">>) THEN "0.5"
    ELSE "1"

\* the branch element1 == "ICE"
branch_ICE(element2) ==
    IF InList(element2, <<"NATURE", "WAR">>) THEN "2"
    ELSE IF InList(element2, <<"FLAME", "METAL">>) THEN "0.5"
    ELSE "1"

\* the branch element1 == "METAL"
branch_METAL(element2) ==
    IF InList(element2, <<"TERRA", "ICE">>) THEN "2"
    ELSE IF InList(element2, <<"ELECTRIC", "DARK">>) THEN "0.5"
    ELSE "1"

\* the DARK branch with a second weak-against element
branch_DARK_two_weak(element2) ==
    IF InList(element2, <<"METAL", "LIGHT">>) THEN "2"
    ELSE IF InList(element2, <<"TERRA", "NATURE">>) THEN "0.5"
    ELSE "1"

\* the branch element1 == "DARK"
branch_DARK(element2) ==
    IF InList(element2, <<"METAL", "LIGHT">>) THEN "2"
    ELSE IF element2 = "TERRA" THEN "0.5"
    ELSE "1"

\* the LIGHT branch strong against an ancient-world element as well
branch_LIGHT_vs_ancient(element2) ==
    IF InList(element2, <<"ELECTRIC", "DARK", "SOUL">>) THEN "2"
    ELSE IF element2 = "NATURE" THEN "0.5"
    ELSE "1"

\* the branch element1 == "LIGHT"
branch_LIGHT(element2) ==
    IF InList(element2, <<"ELECTRIC", "DARK">>) THEN "2"
    ELSE IF element2 = "NATURE" THEN "0.5"
    ELSE "1"

\* the branch element1 == "WAR"
branch_WAR(element2) ==
    IF InList(element2, <<"TERRA", "FLAME">>) THEN "2"
    ELSE IF InList(element2, <<"SEA", "ICE">>) THEN "0.5"
    ELSE "1"

\* the branch element1 == "PURE"
branch_PURE(element2) ==
    IF element2 = "LEGEND" THEN "2"
    ELSE IF element2 = "PRIMAL" THEN "0.5"
    ELSE "1"

\* the branch element1 == "LEGEND"
branch_LEGEND(element2) ==
    IF element2 = "PRIMAL" THEN "2"
    ELSE IF element2 = "PURE" THEN "0.5"
    ELSE "1"

\* the branch element1 == "PRIMAL"
branch_PRIMAL(element2) ==
    IF element2 = "PURE" THEN "2"
    ELSE IF element2 = "LEGEND" THEN "0.5"
    ELSE "1"

\* the branch element1 == "WIND"
branch_WIND(element2) == IF element2 = "WIND" THEN "2" ELSE "1"

\* the function without its final else: an attacker that matches no branch
\* falls off the end and the call yields None
get_elemental_damage_multiplier_no_default(element1, element2) ==
    IF element1 = "TERRA" THEN branch_TERRA(element2)
    ELSE IF element1 = "FLAME" THEN branch_FLAME(element2)
    ELSE IF element1 = "SEA" THEN branch_SEA(element2)
    ELSE IF element1 = "NATURE" THEN branch_NATURE(element2)
    ELSE IF element1 = "ELECTRIC" THEN branch_ELECTRIC(element2)
    ELSE IF element1 = "ICE" THEN branch_ICE(element2)
    ELSE IF element1 = "METAL" THEN branch_METAL(element2)
    ELSE IF element1 = "DARK" THEN branch_DARK(element2)
    ELSE IF element1 = "LIGHT" THEN branch_LIGHT(element2)
    ELSE IF element1 = "WAR" THEN branch_WAR(element2)
    ELSE IF element1 = "PURE" THEN branch_PURE(element2)
    ELSE IF element1 = "LEGEND" THEN branch_LEGEND(element2)
    ELSE IF element1 = "PRIMAL" THEN branch_PRIMAL(element2)
    ELSE IF element1 = "WIND" THEN branch_WIND(element2)
    ELSE "None"

\* the function with both tags upper-cased before the comparisons
get_elemental_damage_multiplier_upper(element1, element2) ==
    IF Upper(element1) = "TERRA" THEN branch_TERRA(Upper(element2))
    ELSE IF Upper(element1) = "FLAME" THEN branch_FLAME(Upper(element2))
    ELSE IF Upper(element1) = "SEA" THEN branch_SEA(Upper(element2))
    ELSE IF Upper(element1) = "NATURE" THEN branch_NATURE(Upper(element2))
    ELSE IF Upper(element1) = "ELECTRIC" THEN branch_ELECTRIC(Upper(element2))
    ELSE IF Upper(element1) = "ICE" THEN branch_ICE(Upper(element2))
    ELSE IF Upper(element1) = "METAL" THEN branch_METAL(Upper(element2))
    ELSE IF Upper(element1) = "DARK" THEN branch_DARK(Upper(element2))
    ELSE IF Upper(element1) = "LIGHT" THEN branch_LIGHT(Upper(element2))
    ELSE IF Upper(element1) = "WAR" THEN branch_WAR(Upper(element2))
    ELSE IF Upper(element1) = "PURE" THEN branch_PURE(Upper(element2))
    ELSE IF Upper(element1) = "LEGEND" THEN branch_LEGEND(Upper(element2))
    ELSE IF Upper(element1) = "PRIMAL" THEN branch_PRIMAL(Upper(element2))
    ELSE IF Upper(element1) = "WIND" THEN branch_WIND(Upper(element2))
    ELSE "1"

\* get_elemental_damage_multiplier(element1, element2)
get_elemental_damage_multiplier(element1, element2) ==
    IF element1 = "TERRA" THEN branch_TERRA(element2)
    ELSE IF element1 = "FLAME" THEN branch_FLAME(element2)
    ELSE IF element1 = "SEA" THEN branch_SEA(element2)
    ELSE IF element1 = "NATURE" THEN branch_NATURE(element2)
    ELSE IF element1 = "ELECTRIC" THEN branch_ELECTRIC(element2)
    ELSE IF element1 = "ICE" THEN branch_ICE(element2)
    ELSE IF element1 = "METAL" THEN branch_METAL(element2)
    ELSE IF element1 = "DARK" THEN branch_DARK(element2)
    ELSE IF element1 = "LIGHT" THEN branch_LIGHT(element2)
    ELSE IF element1 = "WAR" THEN branch_WAR(element2)
    ELSE IF element1 = "PURE" THEN branch_PURE(element2)
    ELSE IF element1 = "LEGEND" THEN branch_LEGEND(element2)
    ELSE IF element1 = "PRIMAL" THEN branch_PRIMAL(element2)
    ELSE IF element1 = "WIND" THEN branch_WIND(element2)
    ELSE "1"

\* ELEMENT_CHART, row "ATTACKING ELEMENT" without its caption
CHART_ATTACKING ==
    <<"TERRA", "FLAME", "SEA", "NATURE", "ELECTRIC", "ICE", "METAL",
      "DARK", "LIGHT", "WAR", "PURE", "LEGEND", "PRIMAL", "WIND">>

\* ELEMENT_CHART, row "DOUBLE DAMAGE" without its caption; a cell is the
\* sequence of the lines of its string
CHART_DOUBLE ==
    <<<<"ELECTRIC", "DARK">>, <<"NATURE", "ICE">>, <<"FLAME", "WAR">>, <<"SEA", "LIGHT">>,
      <<"SEA", "METAL">>, <<"NATURE", "WAR">>, <<"TERRA", "ICE">>, <<"METAL", "LIGHT">>,
      <<"ELECTRIC", "DARK">>, <<"TERRA", "FLAME">>, <<"LEGEND">>, <<"PRIMAL">>, <<"PURE">>, <<"WIND">>>>

\* ELEMENT_CHART, row "HALF DAMAGE" without its caption
CHART_HALF ==
    <<<<"METAL", "WAR">>, <<"SEA", "WAR">>, <<"NATURE", "ELECTRIC">>, <<"FLAME", "ICE">>,
      <<"TERRA", "LIGHT">>, <<"FLAME", "METAL">>, <<"ELECTRIC", "DARK">>, <<"TERRA">>,
      <<"NATURE">>, <<"SEA", "ICE">>, <<"PRIMAL">>, <<"PURE">>, <<"LEGEND">>, <<"N/A">>>>

\* a call get_elemental_damage_multiplier(element1, element2) is to be made
ElemInit ==
    /\ receiver = "module"
    /\ op = "init"
    /\ \E element1, element2 \in Tags : arg = <<element1, element2>>
    /\ result = "None"
    /\ team = <<>>
    /\ leader = None
    /\ creatureInv = <<>>
    /\ itemInv = <<>>
    /\ tile = <<>>
    /\ placed = <<>>

GetElementalDamageMultiplier ==
    /\ receiver = "module"
    /\ op' = "get_elemental_damage_multiplier"
    /\ result' = get_elemental_damage_multiplier(arg[1], arg[2])
    /\ UNCHANGED <<receiver, arg, team, leader, creatureInv, itemInv, adventureVars>>

\* every call of get_elemental_damage_multiplier on a pair of strings
SpecElem == ElemInit /\ [][GetElementalDamageMultiplier]_vars

(***************************************************************************)
(* resistance_accuracy_rule                                                *)
(*                                                                         *)
(* An mpf number is written as its count of hundredths: mpf("0.15") is 15  *)
(* and mpf("1") is 100.  Subtraction and comparison are those of exact     *)
(* decimal arithmetic.                                                     *)
(***************************************************************************)
\* LegendaryCreature.MIN_RESISTANCE = mpf("0.15")
MIN_RESISTANCE == 15

\* LegendaryCreature.MAX_RESISTANCE = mpf("1")
MAX_RESISTANCE == 100

\* LegendaryCreature.MIN_ACCURACY = mpf("0")
MIN_ACCURACY == 0

\* LegendaryCreature.MAX_ACCURACY = mpf("1")
MAX_ACCURACY == 100

\* how far below and above the stat ranges the arguments of the rule go
InputSlack == 20

\* the rule with the operands of the subtraction swapped
resistance_accuracy_rule_swapped(accuracy, resistance) ==
    IF accuracy - resistance <= 15
    THEN 15
    ELSE accuracy - resistance

\* resistance_accuracy_rule(accuracy, resistance)
resistance_accuracy_rule(accuracy, resistance) ==
    IF resistance - accuracy <= 15
    THEN 15
    ELSE resistance - accuracy

\* a call resistance_accuracy_rule(accuracy, resistance) is to be made
RuleInit ==
    /\ receiver = "module"
    /\ op = "init"
    /\ \E accuracy \in (MIN_ACCURACY - InputSlack)..(MAX_ACCURACY + InputSlack),
          resistance \in (MIN_RESISTANCE - InputSlack)..(MAX_RESISTANCE + InputSlack) :
          arg = <<accuracy, resistance>>
    /\ result = "None"
    /\ team = <<>>
    /\ leader = None
    /\ creatureInv = <<>>
    /\ itemInv = <<>>
    /\ tile = <<>>
    /\ placed = <<>>

ResistanceAccuracyRule ==
    /\ receiver = "module"
    /\ op' = "resistance_accuracy_rule"
    /\ result' = resistance_accuracy_rule(arg[1], arg[2])
    /\ UNCHANGED <<receiver, arg, team, leader, creatureInv, itemInv, adventureVars>>

\* every call of resistance_accuracy_rule on a pair of numbers
SpecRule == RuleInit /\ [][ResistanceAccuracyRule]_vars

(***************************************************************************)
(* class CityTile and its subclasses; class Daycare                        *)
(*                                                                         *)
(* A tile is the instance dictionary of its name-mangled attributes: a     *)
(* function from attribute names to lists.  Inside class CityTile the name *)
(* self.__game_characters is the attribute _CityTile__game_characters,     *)
(* inside class GrassTile it is _GrassTile__game_characters, and inside    *)
(* class PavementTile it is _PavementTile__game_characters.  Reading an    *)
(* attribute the instance does not have raises AttributeError.             *)
(***************************************************************************)
\* number of game character objects
NumGameCharacters == 2

\* number of creature objects offered to the Daycare
NumDaycareCreatures == 3

GameCharacters == 1..NumGameCharacters

DaycareCreatures == 1..NumDaycareCreatures

TileClasses == {"CityTile", "WallTile", "WaterTile", "GrassTile", "PavementTile"}

\* CityTile.__init__, which every subclass constructor calls
CityTile_init == [name \in {"_CityTile__game_characters"} |-> <<>>]

\* CityTile.get_game_characters(), inherited by every subclass
get_game_characters(attrs) == attrs["_CityTile__game_characters"]

\* CityTile.add_game_character(game_character), inherited by WallTile and
\* WaterTile
city_add_game_character(attrs, game_character) == [attrs |-> attrs, result |-> "None"]

\* CityTile.remove_game_character(game_character), inherited by WallTile and
\* WaterTile
city_remove_game_character(attrs, game_character) == [attrs |-> attrs, result |-> "None"]

\* GrassTile.add_game_character(game_character)
grass_add_game_character(attrs, game_character) ==
    IF "_GrassTile__game_characters" \in DOMAIN attrs
    THEN [attrs |-> [attrs EXCEPT !["_GrassTile__game_characters"] = ListAppend(@, game_character)],
          result |-> "None"]
    ELSE [attrs |-> attrs, result |-> "AttributeError"]

\* GrassTile.remove_game_character(game_character)
grass_remove_game_character(attrs, game_character) ==
    IF "_GrassTile__game_characters" \in DOMAIN attrs
    THEN IF InList(game_character, attrs["_GrassTile__game_characters"])
         THEN [attrs |-> [attrs EXCEPT !["_GrassTile__game_characters"] = ListRemove(@, game_character)],
               result |-> "True"]
         ELSE [attrs |-> attrs, result |-> "False"]
    ELSE [attrs |-> attrs, result |-> "AttributeError"]

\* PavementTile.add_game_character(game_character)
pavement_add_game_character(attrs, game_character) ==
    IF "_PavementTile__game_characters" \in DOMAIN attrs
    THEN [attrs |-> [attrs EXCEPT !["_PavementTile__game_characters"] = ListAppend(@, game_character)],
          result |-> "None"]
    ELSE [attrs |-> attrs, result |-> "AttributeError"]

\* PavementTile.remove_game_character(game_character)
pavement_remove_game_character(attrs, game_character) ==
    IF "_PavementTile__game_characters" \in DOMAIN attrs
    THEN IF InList(game_character, attrs["_PavementTile__game_characters"])
         THEN [attrs |-> [attrs EXCEPT !["_PavementTile__game_characters"] = ListRemove(@, game_character)],
               result |-> "True"]
         ELSE [attrs |-> attrs, result |-> "False"]
    ELSE [attrs |-> attrs, result |-> "AttributeError"]

\* construction of a tile of one of the five classes
TileInit ==
    /\ receiver \in TileClasses
    /\ tile = CityTile_init
    /\ placed = <<>>
    /\ team = <<>>
    /\ leader = None
    /\ creatureInv = <<>>
    /\ itemInv = <<>>
    /\ op = "init"
    /\ arg = None
    /\ result = "None"

\* tile.add_game_character(c), resolved by the class of the tile
AddGameCharacter ==
    \E c \in GameCharacters :
        LET r == IF receiver = "GrassTile" THEN grass_add_game_character(tile, c)
                 ELSE IF receiver = "PavementTile" THEN pavement_add_game_character(tile, c)
                 ELSE city_add_game_character(tile, c)
        IN /\ receiver \in TileClasses
           /\ tile' = r.attrs
           /\ op' = "add_game_character"
           /\ arg' = c
           /\ result' = r.result
           /\ UNCHANGED <<receiver, team, leader, creatureInv, itemInv, placed>>

\* tile.remove_game_character(c), resolved by the class of the tile
RemoveGameCharacter ==
    \E c \in GameCharacters :
        LET r == IF receiver = "GrassTile" THEN grass_remove_game_character(tile, c)
                 ELSE IF receiver = "PavementTile" THEN pavement_remove_game_character(tile, c)
                 ELSE city_remove_game_character(tile, c)
        IN /\ receiver \in TileClasses
           /\ tile' = r.attrs
           /\ op' = "remove_game_character"
           /\ arg' = c
           /\ result' = r.result
           /\ UNCHANGED <<receiver, team, leader, creatureInv, itemInv, placed>>

\* Daycare.MAX_LEGENDARY_CREATURES_PLACED
MAX_LEGENDARY_CREATURES_PLACED == 5

\* Daycare.add_legendary_creature with the capacity test written <= instead of <
daycare_add_legendary_creature_le(lst, c) ==
    IF Len(lst) <= MAX_LEGENDARY_CREATURES_PLACED
    THEN [list |-> ListAppend(lst, c), result |-> "True"]
    ELSE [list |-> lst, result |-> "False"]

\* Daycare.add_legendary_creature(legendary_creature)
daycare_add_legendary_creature(lst, c) ==
    IF Len(lst) < MAX_LEGENDARY_CREATURES_PLACED
    THEN [list |-> ListAppend(lst, c), result |-> "True"]
    ELSE [list |-> lst, result |-> "False"]

\* Daycare.remove_legendary_creature(legendary_creature)
daycare_remove_legendary_creature(lst, c) ==
    IF InList(c, lst)
    THEN [list |-> ListRemove(lst, c), result |-> "True"]
    ELSE [list |-> lst, result |-> "False"]

\* Daycare.__init__
DaycareInit ==
    /\ receiver = "Daycare"
    /\ placed = <<>>
    /\ tile = <<>>
    /\ team = <<>>
    /\ leader = None
    /\ creatureInv = <<>>
    /\ itemInv = <<>>
    /\ op = "init"
    /\ arg = None
    /\ result = "None"

DaycareAddLegendaryCreature ==
    \E c \in DaycareCreatures :
        LET r == daycare_add_legendary_creature(placed, c)
        IN /\ receiver = "Daycare"
           /\ placed' = r.list
           /\ op' = "daycare_add"
           /\ arg' = c
           /\ result' = r.result
           /\ UNCHANGED <<receiver, team, leader, creatureInv, itemInv, tile>>

DaycareRemoveLegendaryCreature ==
    \E c \in DaycareCreatures :
        LET r == daycare_remove_legendary_creature(placed, c)
        IN /\ receiver = "Daycare"
           /\ placed' = r.list
           /\ op' = "daycare_remove"
           /\ arg' = c
           /\ result' = r.result
           /\ UNCHANGED <<receiver, team, leader, creatureInv, itemInv, tile>>

AdventureInit == TileInit \/ DaycareInit

AdventureNext ==
    \/ AddGameCharacter
    \/ RemoveGameCharacter
    \/ DaycareAddLegendaryCreature
    \/ DaycareRemoveLegendaryCreature

\* a city tile of any class, or a Daycare, under every sequence of its methods
SpecAdventure == AdventureInit /\ [][AdventureNext]_vars

(***************************************************************************)
(* Properties of BattleTeam.                                               *)
(***************************************************************************)
\* C1: after every add_legendary_creature that returns True the team is
\* non-empty and the leader is its first member in insertion order.
C1_LeaderIsFirstAfterAdd ==
    (op = "add" /\ result = "True") => (Len(team) > 0 /\ leader = team[1])

\* C2: after a successful remove_legendary_creature of the member that was the
\* leader, the leader is the new first member, or None when the team is empty.
C2_LeaderResetAfterRemovingLeader ==
    [][(op' = "remove" /\ result' = "True" /\ leader = arg')
          => leader' = (IF Len(team') = 0 THEN None ELSE team'[1])]_vars

\* C3: in every state reachable by construction and add / remove / set_leader
\* calls, the leader is None or a current member of the team.
C3_LeaderIsNoneOrMember == leader = None \/ InList(leader, team)

C3_Witness ==
    /\ op = "set_leader"
    /\ Len(team) >= 3
    /\ leader # None
    /\ leader = team[3]

\* C4: a team never holds more than 5 members, and an add on a team that has
\* 5 members returns False and leaves the membership unchanged.
C4_CapacityFive ==
    /\ [](Len(team) <= 5)
    /\ [][(op' = "add" /\ Len(team) = 5) => (result' = "False" /\ team' = team)]_vars

C4_Witness ==
    /\ op = "add"
    /\ result = "False"
    /\ Len(team) = 5
    /\ \A i \in 1..Len(team) : legendary_creature_id(team[i]) # legendary_creature_id(arg)

\* C5: an add of a creature whose legendary_creature_id equals that of a
\* current member, the same object or a distinct one, returns False and does
\* not change the membership.
C5_DuplicateIdRejected ==
    [][(op' = "add" /\ \E i \in 1..Len(team) : legendary_creature_id(team[i]) = legendary_creature_id(arg'))
          => (result' = "False" /\ team' = team)]_vars

C5_Witness ==
    /\ op = "add"
    /\ result = "False"
    /\ Len(team) < MAX_LEGENDARY_CREATURES
    /\ ~InList(arg, team)
    /\ \E i \in 1..Len(team) : legendary_creature_id(team[i]) = legendary_creature_id(arg)

\* C6: in every reachable state, the one right after construction included,
\* no two members of the team share a legendary_creature_id.
C6_NoSharedId ==
    \A i, j \in 1..Len(team) :
        i # j => legendary_creature_id(team[i]) # legendary_creature_id(team[j])

\* C8: an add of a duplicate id, an add at capacity and a remove of an absent
\* creature return False, and a call that returns False leaves members, order
\* and leader as they were.
C8_RejectedMutationChangesNothing ==
    [][/\ (\/ (op' = "add" /\ Len(team) >= MAX_LEGENDARY_CREATURES)
           \/ (op' = "add" /\ \E i \in 1..Len(team) :
                                 legendary_creature_id(team[i]) = legendary_creature_id(arg'))
           \/ (op' = "remove" /\ ~InList(arg', team)))
          => result' = "False"
       /\ (op' \in {"add", "remove"} /\ result' = "False")
          => (team' = team /\ leader' = leader)]_vars

C8_Witness ==
    /\ op = "remove"
    /\ result = "False"
    /\ Len(team) >= 2
    /\ leader # None
    /\ ~InList(arg, team)

\* C9: set_leader(candidate) makes candidate the leader exactly when candidate
\* is a current member, makes the leader None for None, for a non-member and
\* on an empty team, and never changes the members or their order.
C9_SetLeader ==
    [][op' = "set_leader"
          => /\ team' = team
             /\ leader' = (IF arg' # None /\ (\E i \in 1..Len(team) : team[i] = arg')
                           THEN arg' ELSE None)]_vars

C9_Witness ==
    /\ op = "set_leader"
    /\ arg # None
    /\ Len(team) >= 2
    /\ ~InList(arg, team)
    /\ leader = None

(***************************************************************************)
(* Properties of the inventories and of remove on the three collections.   *)
(***************************************************************************)
\* C7: adding to an inventory an item it already lists returns failure and
\* leaves the size unchanged.
C7_SecondAddRejected ==
    [][/\ (op' = "inv_add" /\ InList(arg', creatureInv))
             => (result' = "False" /\ Len(creatureInv') = Len(creatureInv))
       /\ (op' = "add_item" /\ InList(arg', itemInv))
             => (result' = "False" /\ Len(itemInv') = Len(itemInv))]_vars

\* C7 as amended: adding to an inventory an item it already lists appends the
\* item once more, the size growing by one, and the add returns None.
C7_SecondAddAppends ==
    [][/\ (op' = "inv_add" /\ InList(arg', creatureInv))
             => (result' = "None" /\ creatureInv' = creatureInv \o <<arg'>>)
       /\ (op' = "add_item" /\ InList(arg', itemInv))
             => (result' = "None" /\ itemInv' = itemInv \o <<arg'>>)]_vars

C7_Witness ==
    /\ op = "add_item"
    /\ result = "None"
    /\ Len(itemInv) >= 3
    /\ Cardinality({i \in 1..Len(itemInv) : itemInv[i] = arg}) >= 2

\* number of places of lst that hold x
Occurrences(lst, x) == Cardinality({i \in 1..Len(lst) : lst[i] = x})

\* after is before with the place k deleted
DeletedAt(before, k, after) ==
    /\ Len(after) = Len(before) - 1
    /\ \A i \in 1..Len(after) : after[i] = (IF i < k THEN before[i] ELSE before[i + 1])

\* C10: remove on a collection returns failure and changes nothing when the
\* item is absent; when it is present it returns success, the size decreases
\* by one and the item is no longer contained.
C10_RemoveTakesItemOut ==
    [][/\ op' = "remove" =>
             IF ~InList(arg', team)
             THEN result' = "False" /\ team' = team /\ leader' = leader
             ELSE result' = "True" /\ Len(team') = Len(team) - 1 /\ ~InList(arg', team')
       /\ op' = "inv_remove" =>
             IF ~InList(arg', creatureInv)
             THEN result' = "False" /\ creatureInv' = creatureInv
             ELSE result' = "True" /\ Len(creatureInv') = Len(creatureInv) - 1
                  /\ ~InList(arg', creatureInv')
       /\ op' = "remove_item" =>
             IF ~InList(arg', itemInv)
             THEN result' = "False" /\ itemInv' = itemInv
             ELSE result' = "True" /\ Len(itemInv') = Len(itemInv) - 1
                  /\ ~InList(arg', itemInv')]_vars

\* C10 as amended: remove returns failure and changes nothing when the item is
\* absent; when it is present it returns success and deletes the first
\* occurrence only, so the size decreases by one, the other entries keep their
\* order, and the item is no longer contained when it was listed once.
C10_RemoveDeletesFirstOccurrence ==
    [][/\ op' = "remove" =>
             IF ~InList(arg', team)
             THEN result' = "False" /\ team' = team /\ leader' = leader
             ELSE /\ result' = "True"
                  /\ \E k \in 1..Len(team) :
                        /\ team[k] = arg'
                        /\ \A j \in 1..(k - 1) : team[j] # arg'
                        /\ DeletedAt(team, k, team')
                  /\ Occurrences(team, arg') = 1 => ~InList(arg', team')
       /\ op' = "inv_remove" =>
             IF ~InList(arg', creatureInv)
             THEN result' = "False" /\ creatureInv' = creatureInv
             ELSE /\ result' = "True"
                  /\ \E k \in 1..Len(creatureInv) :
                        /\ creatureInv[k] = arg'
                        /\ \A j \in 1..(k - 1) : creatureInv[j] # arg'
                        /\ DeletedAt(creatureInv, k, creatureInv')
                  /\ Occurrences(creatureInv, arg') = 1 => ~InList(arg', creatureInv')
       /\ op' = "remove_item" =>
             IF ~InList(arg', itemInv)
             THEN result' = "False" /\ itemInv' = itemInv
             ELSE /\ result' = "True"
                  /\ \E k \in 1..Len(itemInv) :
                        /\ itemInv[k] = arg'
                        /\ \A j \in 1..(k - 1) : itemInv[j] # arg'
                        /\ DeletedAt(itemInv, k, itemInv')
                  /\ Occurrences(itemInv, arg') = 1 => ~InList(arg', itemInv')]_vars

C10_Witness ==
    /\ op = "remove_item"
    /\ result = "True"
    /\ InList(arg, itemInv)
    /\ Len(itemInv) = 3
    /\ itemInv[1] # arg
    /\ itemInv[2] # itemInv[1]

(***************************************************************************)
(* Order of the listings, construction, and lookup by object or by id.     *)
(***************************************************************************)
\* C11: a successful add puts the new item at the end of the listing, and no
\* add, remove or set_leader changes the relative order of the other entries:
\* a remove deletes one place that holds the item and nothing else moves.
C11_InsertionOrderKept ==
    [][/\ (op' = "add" /\ result' = "True") => team' = team \o <<arg'>>
       /\ (op' = "add" /\ result' = "False") => team' = team
       /\ op' = "set_leader" => team' = team
       /\ op' = "remove" =>
             \/ result' = "False" /\ team' = team
             \/ result' = "True" /\ \E k \in 1..Len(team) : team[k] = arg' /\ DeletedAt(team, k, team')
       /\ op' = "inv_add" => creatureInv' = creatureInv \o <<arg'>>
       /\ op' = "inv_remove" =>
             \/ result' = "False" /\ creatureInv' = creatureInv
             \/ result' = "True" /\ \E k \in 1..Len(creatureInv) :
                                        creatureInv[k] = arg' /\ DeletedAt(creatureInv, k, creatureInv')]_vars

C11_Witness ==
    /\ op = "remove"
    /\ result = "True"
    /\ arg = 3
    /\ team = <<4, 2, 5, 1>>

\* C19: a team constructed from a list of at most 5 creatures has that list,
\* in order, as its members and its first element as leader (None for an empty
\* or omitted list); constructed from a longer list it is empty with leader
\* None.
C19_Construction ==
    (receiver = "BattleTeam" /\ op = "init") =>
        IF arg.omitted
        THEN team = <<>> /\ leader = None
        ELSE IF Len(arg.list) <= 5
             THEN /\ team = arg.list
                  /\ leader = (IF arg.list = <<>> THEN None ELSE arg.list[1])
             ELSE team = <<>> /\ leader = None

C19_Witness ==
    /\ receiver = "BattleTeam"
    /\ op = "init"
    /\ ~arg.omitted
    /\ Len(arg.list) > 5
    /\ team = <<>>
    /\ leader = None

\* C20: for a creature object that is not a member but shares its
\* legendary_creature_id with a member, add returns False and remove returns
\* False, and neither call changes the members or the leader.
C20_SharedIdNonMember ==
    [][(/\ op' \in {"add", "remove"}
        /\ ~InList(arg', team)
        /\ \E i \in 1..Len(team) : legendary_creature_id(team[i]) = legendary_creature_id(arg'))
          => (result' = "False" /\ team' = team /\ leader' = leader)]_vars

C20_Witness ==
    /\ op = "remove"
    /\ result = "False"
    /\ ~InList(arg, team)
    /\ \E i \in 1..Len(team) : legendary_creature_id(team[i]) = legendary_creature_id(arg)
    /\ Len(team) >= 2
    /\ leader # None

(***************************************************************************)
(* Properties of get_elemental_damage_multiplier, checked under SpecElem.  *)
(***************************************************************************)
\* C12: with TERRA attacking, the multiplier is 2 against ELECTRIC and DARK,
\* 0.5 against METAL and WAR, and 1 against every other element.
C12_TerraRow ==
    (/\ op = "get_elemental_damage_multiplier"
     /\ arg[1] = "TERRA"
     /\ InList(arg[2], POTENTIAL_ELEMENTS))
        => result = (IF arg[2] \in {"ELECTRIC", "DARK"} THEN "2"
                     ELSE IF arg[2] \in {"METAL", "WAR"} THEN "0.5"
                     ELSE "1")

\* the strong-against column of the table of section 4.1 of the specification
TableStrong(attacker) ==
    CASE attacker = "FLAME" -> {"NATURE", "ICE"}
      [] attacker = "SEA" -> {"FLAME", "WAR"}
      [] attacker = "NATURE" -> {"SEA", "LIGHT"}
      [] attacker = "ELECTRIC" -> {"SEA", "METAL"}
      [] attacker = "ICE" -> {"NATURE", "WAR"}
      [] attacker = "METAL" -> {"TERRA", "ICE"}
      [] attacker = "DARK" -> {"METAL", "LIGHT"}
      [] attacker = "LIGHT" -> {"ELECTRIC", "DARK"}
      [] attacker = "WAR" -> {"TERRA", "FLAME"}
      [] attacker = "PURE" -> {"LEGEND"}
      [] attacker = "LEGEND" -> {"PRIMAL"}
      [] attacker = "PRIMAL" -> {"PURE"}
      [] attacker = "WIND" -> {"WIND"}

\* the weak-against column of the same table
TableWeak(attacker) ==
    CASE attacker = "FLAME" -> {"SEA", "WAR"}
      [] attacker = "SEA" -> {"NATURE", "ELECTRIC"}
      [] attacker = "NATURE" -> {"FLAME", "ICE"}
      [] attacker = "ELECTRIC" -> {"TERRA", "LIGHT"}
      [] attacker = "ICE" -> {"FLAME", "METAL"}
      [] attacker = "METAL" -> {"ELECTRIC", "DARK"}
      [] attacker = "DARK" -> {"TERRA"}
      [] attacker = "LIGHT" -> {"NATURE"}
      [] attacker = "WAR" -> {"SEA", "ICE"}
      [] attacker = "PURE" -> {"PRIMAL"}
      [] attacker = "LEGEND" -> {"PURE"}
      [] attacker = "PRIMAL" -> {"LEGEND"}
      [] attacker = "WIND" -> {}

\* C13: for each of the 13 attacking elements FLAME .. WIND other than TERRA
\* and every defending element of the 20-element domain, the multiplier is 2
\* for the strong-against elements of the table, 0.5 for its weak-against
\* elements and 1 otherwise.
C13_TableRows ==
    (/\ op = "get_elemental_damage_multiplier"
     /\ arg[1] \in {"FLAME", "SEA", "NATURE", "ELECTRIC", "ICE", "METAL", "DARK",
                    "LIGHT", "WAR", "PURE", "LEGEND", "PRIMAL", "WIND"}
     /\ InList(arg[2], POTENTIAL_ELEMENTS))
        => result = (IF arg[2] \in TableStrong(arg[1]) THEN "2"
                     ELSE IF arg[2] \in TableWeak(arg[1]) THEN "0.5"
                     ELSE "1")

C13_Witness ==
    /\ op = "get_elemental_damage_multiplier"
    /\ arg = <<"DARK", "TERRA">>
    /\ result = "0.5"

\* C14: every call returns one of 2, 0.5 and 1, whatever the two strings.
C14_RangeOfMultiplier ==
    op = "get_elemental_damage_multiplier" => result \in {"2", "0.5", "1"}

C14_Witness ==
    /\ op = "get_elemental_damage_multiplier"
    /\ arg = <<"UNKNOWN", "UNKNOWN">>
    /\ result = "1"

\* C15: the multiplier is 1 when the attacking element is an ancient-world
\* element or a string that names no element, against every defender, and when
\* the defending element is an ancient-world element, whatever the attacker.
C15_AncientIsNeutral ==
    op = "get_elemental_damage_multiplier" =>
        /\ arg[1] \in {"BEAUTY", "MAGIC", "CHAOS", "HAPPY", "DREAM", "SOUL"} => result = "1"
        /\ ~InList(arg[1], POTENTIAL_ELEMENTS) => result = "1"
        /\ arg[2] \in {"BEAUTY", "MAGIC", "CHAOS", "HAPPY", "DREAM", "SOUL"} => result = "1"

C15_Witness ==
    /\ op = "get_elemental_damage_multiplier"
    /\ arg = <<"LIGHT", "SOUL">>
    /\ result = "1"

\* C16: the multiplier of two tags written in lower or mixed case is that of
\* the same tags in upper case.
C16_CaseNormalized ==
    op = "get_elemental_damage_multiplier" =>
        result = get_elemental_damage_multiplier(Upper(arg[1]), Upper(arg[2]))

\* C16 as amended: the lookup is case-sensitive.  A tag written in lower or
\* mixed case matches no element, so a pair with such an attacker or such a
\* defender has multiplier 1: "flame" against "nature" yields 1, "FLAME"
\* against "NATURE" yields 2.
C16_CaseSensitive ==
    op = "get_elemental_damage_multiplier" =>
        /\ (\E i \in 1..Len(POTENTIAL_ELEMENTS) :
               \/ arg[1] \in {LowerCaseTags[i], MixedCaseTags[i]}
               \/ arg[2] \in {LowerCaseTags[i], MixedCaseTags[i]}) => result = "1"
        /\ arg = <<"FLAME", "NATURE">> => result = "2"

C16_Witness ==
    /\ op = "get_elemental_damage_multiplier"
    /\ arg = <<"flame", "nature">>
    /\ result = "1"

\* C18: for every attacking element of ELEMENT_CHART and every defending
\* element, the defender is listed under DOUBLE DAMAGE exactly when the
\* multiplier is 2 and under HALF DAMAGE exactly when it is 0.5.
C18_ChartAgrees ==
    op = "get_elemental_damage_multiplier" =>
        \A i \in 1..Len(CHART_ATTACKING) :
            (arg[1] = CHART_ATTACKING[i] /\ InList(arg[2], POTENTIAL_ELEMENTS)) =>
                /\ InList(arg[2], CHART_DOUBLE[i]) <=> result = "2"
                /\ InList(arg[2], CHART_HALF[i]) <=> result = "0.5"

(***************************************************************************)
(* Properties of resistance_accuracy_rule, checked under SpecRule.         *)
(***************************************************************************)
\* C17: the rule returns 0.15 when resistance - accuracy <= 0.15, the boundary
\* included, and resistance - accuracy otherwise; for accuracy in [0, 1] and
\* resistance in [0.15, 1] the result lies in [0.15, 1]; (1, 0.15) gives 0.15,
\* (0, 1) gives 1 and (0.5, 0.6) gives 0.15.
C17_FloorRule ==
    op = "resistance_accuracy_rule" =>
        /\ arg[2] - arg[1] <= 15 => result = 15
        /\ arg[2] - arg[1] > 15 => result = arg[2] - arg[1]
        /\ (arg[1] \in 0..100 /\ arg[2] \in 15..100) => result \in 15..100
        /\ arg = <<100, 15>> => result = 15
        /\ arg = <<0, 100>> => result = 100
        /\ arg = <<50, 60>> => result = 15

C17_Witness ==
    /\ op = "resistance_accuracy_rule"
    /\ arg = <<50, 65>>
    /\ result = 15

(***************************************************************************)
(* Properties of the city tiles and of Daycare, checked under              *)
(* SpecAdventure.                                                          *)
(***************************************************************************)
\* C21: on a GrassTile or PavementTile add_game_character(c) completes without
\* error and get_game_characters() then contains c; remove_game_character(c)
\* of a character the tile holds returns True and takes one c out; a CityTile,
\* WallTile or WaterTile never holds a character.
C21_TilesHoldCharacters ==
    [][/\ (receiver' \in {"GrassTile", "PavementTile"} /\ op' = "add_game_character")
             => (result' = "None" /\ InList(arg', get_game_characters(tile')))
       /\ (/\ receiver' \in {"GrassTile", "PavementTile"}
           /\ op' = "remove_game_character"
           /\ InList(arg', get_game_characters(tile)))
             => /\ result' = "True"
                /\ \E k \in 1..Len(get_game_characters(tile)) :
                      /\ get_game_characters(tile)[k] = arg'
                      /\ DeletedAt(get_game_characters(tile), k, get_game_characters(tile'))
       /\ receiver' \in {"CityTile", "WallTile", "WaterTile"}
             => get_game_characters(tile') = <<>>]_vars

\* C22: a Daycare never holds more than 5 placed creatures; add returns True
\* and appends exactly when fewer than 5 are placed, whether or not the
\* creature is already placed, and returns False leaving the placement
\* unchanged when 5 are placed.
C22_DaycareCapacity ==
    /\ [](Len(placed) <= 5)
    /\ [][op' = "daycare_add" =>
             IF Len(placed) < 5
             THEN result' = "True" /\ placed' = placed \o <<arg'>>
             ELSE result' = "False" /\ placed' = placed]_vars

C22_Witness ==
    /\ op = "daycare_add"
    /\ result = "False"
    /\ Len(placed) = 5
    /\ Cardinality({i \in 1..Len(placed) : placed[i] = placed[1]}) >= 2

====
